---- MODULE Spec2Model ----
(***************************************************************************)
(* QuantitySurveyorAI.analyze_pdf and QuantitySurveyorAI._parse_response   *)
(* of gemini_pdf_analyzer.py.                                              *)
(*                                                                         *)
(* A response text is a sequence of atoms.  An atom stands for one         *)
(* character or for one run of characters that the two regular             *)
(* expressions and the JSON decoder treat as a unit: the backtick fence,   *)
(* the word json, a whitespace character, a JSON punctuation character, a  *)
(* double quote, a number literal, a literal name, or a word.              *)
(*                                                                         *)
(* A JSON number is the decimal fraction n/d (d a power of ten, lowest     *)
(* terms in powers of ten).  The Python floats of the weight formula are   *)
(* modelled by exact rationals; the literals of NumberTable are chosen so  *)
(* that no product lies on a rounding tie, where the float result and the  *)
(* exact result could differ.                                              *)
(***************************************************************************)
EXTENDS Integers, Sequences, FiniteSets, TLC

\* Largest number of times the upload is re-polled while PROCESSING.
MaxPolls == 2

----------------------------------------------------------------------------
\* Atoms of the text

\* FENCE is the run of three backticks that opens and closes a code fence
FENCE == "fence"
TAG == "json"
WS == " "
LBRACE == "{"
RBRACE == "}"
LBRACK == "["
RBRACK == "]"
COLON == ":"
COMMA == ","
QUOTE == "\""

Min(S) == CHOOSE m \in S : \A n \in S : m <= n
Max(S) == CHOOSE m \in S : \A n \in S : n <= m

----------------------------------------------------------------------------
\* JSON values as Python holds them after json.loads

Num(n, d) == [t |-> "num", v |-> <<n, d>>]
Str(s) == [t |-> "str", v |-> s]
Null == [t |-> "null", v |-> <<>>]
Bool(b) == [t |-> "bool", v |-> <<b>>]
Arr(a) == [t |-> "arr", v |-> a]
\* a dict keeps its keys in insertion order: a sequence of key/value pairs
Obj(pairs) == [t |-> "obj", v |-> pairs]
Pair(k, val) == [k |-> k, v |-> val]

\* key in dict
HasKey(pairs, k) == \E j \in 1..Len(pairs) : pairs[j].k = k
KeyIndex(pairs, k) == CHOOSE j \in 1..Len(pairs) : pairs[j].k = k
\* dict[k], for a key that is present
GetKey(pairs, k) == pairs[KeyIndex(pairs, k)].v
\* dict[k] = val: an existing key keeps its position, a new key is appended
SetKey(pairs, k, val) ==
    IF HasKey(pairs, k)
    THEN [pairs EXCEPT ![KeyIndex(pairs, k)] = Pair(k, val)]
    ELSE Append(pairs, Pair(k, val))

\* The number literals of the texts and the values float()/int() give them.
NumberTable ==
    << [a |-> "12", n |-> 12, d |-> 1],
       [a |-> "8", n |-> 8, d |-> 1],
       [a |-> "17.6", n |-> 176, d |-> 10],
       [a |-> "2.2", n |-> 22, d |-> 10],
       [a |-> "1.32", n |-> 132, d |-> 100],
       [a |-> "0.6", n |-> 6, d |-> 10] >>

NumberAtoms == { NumberTable[j].a : j \in 1..Len(NumberTable) }
NumberOf(a) ==
    LET j == CHOOSE j \in 1..Len(NumberTable) : NumberTable[j].a = a
    IN  Num(NumberTable[j].n, NumberTable[j].d)

----------------------------------------------------------------------------
\* re.search over the text

\* \s* : the index after the whitespace run that starts at i
RECURSIVE SkipSpace(_, _)
SkipSpace(s, i) ==
    IF i <= Len(s) /\ s[i] = WS THEN SkipSpace(s, i + 1) ELSE i

NoMatch == [found |-> FALSE, first |-> 0, last |-> 0]
Match(first, last) == [found |-> TRUE, first |-> first, last |-> last]

\* The span of group 1 when the fenced pattern matches with its fence at i:
\* the fence and the tag, whitespace, an opening brace, then (non-greedy)
\* the shortest run that ends in a closing brace followed by whitespace
\* and a fence.
FencedAt(s, i) ==
    IF i + 1 <= Len(s) /\ s[i] = FENCE /\ s[i + 1] = TAG
    THEN LET p == SkipSpace(s, i + 2)
         IN  IF p <= Len(s) /\ s[p] = LBRACE
             THEN LET ends == { e \in (p + 1)..Len(s) :
                                  /\ s[e] = RBRACE
                                  /\ LET q == SkipSpace(s, e + 1)
                                     IN  q <= Len(s) /\ s[q] = FENCE }
                  IN  IF ends = {} THEN NoMatch ELSE Match(p, Min(ends))
             ELSE NoMatch
    ELSE NoMatch

\* re.search(r'```json\s*(\{.*?\})\s*```', s, re.DOTALL): the leftmost fence
\* at which the pattern matches
SearchFenced(s) ==
    LET starts == { i \in 1..Len(s) : FencedAt(s, i).found }
    IN  IF starts = {} THEN NoMatch ELSE FencedAt(s, Min(starts))

\* re.search(r'\{.*\}', s, re.DOTALL): the first opening brace through the
\* last closing brace
SearchGreedy(s) ==
    LET opens == { i \in 1..Len(s) : s[i] = LBRACE }
        closes == { i \in 1..Len(s) : s[i] = RBRACE }
    IN  IF opens # {} /\ closes # {} /\ Min(opens) < Max(closes)
        THEN Match(Min(opens), Max(closes))
        ELSE NoMatch

----------------------------------------------------------------------------
\* json.loads

Failed == [ok |-> FALSE, val |-> Null, next |-> 0]
Parsed(val, next) == [ok |-> TRUE, val |-> val, next |-> next]

\* a string literal that opens at i: up to the next double quote
ParseString(s, i) ==
    LET closes == { j \in (i + 1)..Len(s) : s[j] = QUOTE }
    IN  IF closes = {}
        THEN Failed
        ELSE Parsed(Str(SubSeq(s, i + 1, Min(closes) - 1)), Min(closes) + 1)

RECURSIVE ParseValue(_, _)
RECURSIVE ParseMembers(_, _, _)
RECURSIVE ParseElements(_, _, _)

\* the members of an object from i (whitespace skipped), pairs read so far
ParseMembers(s, i, pairs) ==
    IF i > Len(s) \/ s[i] # QUOTE
    THEN Failed
    ELSE LET key == ParseString(s, i)
             c == SkipSpace(s, key.next)
         IN  IF ~key.ok \/ c > Len(s) \/ s[c] # COLON
             THEN Failed
             ELSE LET val == ParseValue(s, SkipSpace(s, c + 1))
                      e == SkipSpace(s, val.next)
                  IN  IF ~val.ok \/ e > Len(s)
                      THEN Failed
                      ELSE IF s[e] = RBRACE
                      THEN Parsed(Obj(SetKey(pairs, key.val.v, val.val)), e + 1)
                      ELSE IF s[e] = COMMA
                      THEN ParseMembers(s, SkipSpace(s, e + 1),
                                        SetKey(pairs, key.val.v, val.val))
                      ELSE Failed

\* the elements of an array from i (whitespace skipped), values read so far
ParseElements(s, i, vals) ==
    LET val == ParseValue(s, i)
        e == SkipSpace(s, val.next)
    IN  IF ~val.ok \/ e > Len(s)
        THEN Failed
        ELSE IF s[e] = RBRACK
        THEN Parsed(Arr(Append(vals, val.val)), e + 1)
        ELSE IF s[e] = COMMA
        THEN ParseElements(s, SkipSpace(s, e + 1), Append(vals, val.val))
        ELSE Failed

\* one JSON value that starts at i (whitespace skipped)
ParseValue(s, i) ==
    IF i > Len(s) THEN Failed
    ELSE IF s[i] = LBRACE
    THEN LET j == SkipSpace(s, i + 1)
         IN  IF j <= Len(s) /\ s[j] = RBRACE
             THEN Parsed(Obj(<<>>), j + 1)
             ELSE ParseMembers(s, j, <<>>)
    ELSE IF s[i] = LBRACK
    THEN LET j == SkipSpace(s, i + 1)
         IN  IF j <= Len(s) /\ s[j] = RBRACK
             THEN Parsed(Arr(<<>>), j + 1)
             ELSE ParseElements(s, j, <<>>)
    ELSE IF s[i] = QUOTE THEN ParseString(s, i)
    ELSE IF s[i] \in NumberAtoms THEN Parsed(NumberOf(s[i]), i + 1)
    ELSE IF s[i] = "null" THEN Parsed(Null, i + 1)
    ELSE IF s[i] = "true" THEN Parsed(Bool(1), i + 1)
    ELSE IF s[i] = "false" THEN Parsed(Bool(0), i + 1)
    ELSE Failed

\* json.loads(s): one value and nothing but whitespace around it;
\* ok = FALSE stands for json.JSONDecodeError
JsonLoads(s) ==
    LET r == ParseValue(s, SkipSpace(s, 1))
    IN  IF r.ok /\ SkipSpace(s, r.next) = Len(s) + 1 THEN r ELSE Failed

----------------------------------------------------------------------------
\* The response texts: JSON as the prompt asks the model to write it

RECURSIVE Serialize(_)
RECURSIVE SerializeElements(_, _)
RECURSIVE SerializeMembers(_, _)

NumberAtomOf(v) ==
    LET j == CHOOSE j \in 1..Len(NumberTable) :
                 NumberTable[j].n = v[1] /\ NumberTable[j].d = v[2]
    IN  NumberTable[j].a

SerializeElements(vals, j) ==
    IF j > Len(vals) THEN <<>>
    ELSE (IF j > 1 THEN <<COMMA, WS>> ELSE <<>>)
         \o Serialize(vals[j]) \o SerializeElements(vals, j + 1)

SerializeMembers(pairs, j) ==
    IF j > Len(pairs) THEN <<>>
    ELSE (IF j > 1 THEN <<COMMA, WS>> ELSE <<>>)
         \o <<QUOTE>> \o pairs[j].k \o <<QUOTE, COLON, WS>>
         \o Serialize(pairs[j].v) \o SerializeMembers(pairs, j + 1)

Serialize(val) ==
    IF val.t = "num" THEN <<NumberAtomOf(val.v)>>
    ELSE IF val.t = "str" THEN <<QUOTE>> \o val.v \o <<QUOTE>>
    ELSE IF val.t = "null" THEN <<"null">>
    ELSE IF val.t = "bool"
    THEN (IF val.v[1] = 1 THEN <<"true">> ELSE <<"false">>)
    ELSE IF val.t = "arr"
    THEN <<LBRACK>> \o SerializeElements(val.v, 1) \o <<RBRACK>>
    ELSE <<LBRACE>> \o SerializeMembers(val.v, 1) \o <<RBRACE>>

Key(a) == <<a>>
Word(a) == Str(<<a>>)

BoqItem(component, quantity) ==
    Obj(<< Pair(Key("component"), Word(component)),
           Pair(Key("quantity"), quantity),
           Pair(Key("unit"), Word("m3")) >>)

\* a BBS item; fields is the sequence of its pairs after mark
BbsItem(mark, fields) == Obj(<<Pair(Key("mark"), Word(mark))>> \o fields)
Dia(val) == Pair(Key("dia_mm"), val)
TotalLength(val) == Pair(Key("total_length"), val)
WeightKg(val) == Pair(Key("weight_kg"), val)

\* the BBS item of the prompt's example: 12 mm, 17.6 m, weight 1.32
ItemF1 ==
    BbsItem("F1", << Dia(Num(12, 1)), Pair(Key("count"), Num(8, 1)),
                     TotalLength(Num(176, 10)), WeightKg(Num(132, 100)) >>)
\* an item for which the model gave no weight
ItemS1 == BbsItem("S1", << Dia(Num(8, 1)), TotalLength(Num(22, 10)) >>)
\* the weight comes before the fields it is computed from
ItemS2 ==
    BbsItem("S2", << WeightKg(Num(6, 10)), TotalLength(Num(176, 10)),
                     Dia(Bool(1)) >>)
ItemNoDia == BbsItem("X1", << TotalLength(Num(22, 10)), WeightKg(Num(6, 10)) >>)
ItemNoLength == BbsItem("X2", << Dia(Num(8, 1)), WeightKg(Num(6, 10)) >>)
ItemStrDia == BbsItem("X3", << Dia(Word("12")), TotalLength(Num(22, 10)) >>)
ItemNullLength == BbsItem("X4", << Dia(Num(12, 1)), TotalLength(Null) >>)
ItemListLength ==
    BbsItem("X5", << Dia(Num(12, 1)), TotalLength(Arr(<<Num(22, 10)>>)) >>)

Document(scale, boq, bbs, notes) ==
    Obj(<< Pair(Key("scale"), Word(scale)), Pair(Key("boq"), Arr(boq)),
           Pair(Key("bbs"), bbs), Pair(Key("notes"), Arr(notes)),
           Pair(Key("assumptions"), Arr(<<Word("assumed")>>)) >>)

Boq2 == << BoqItem("F1", Num(6, 10)), BoqItem("B1", Num(22, 10)) >>

\* answers whose weights can all be recomputed
GoodDocuments ==
    << Document("1:100", Boq2, Arr(<<ItemF1>>), <<Word("meters")>>),
       Document("1:50", Boq2, Arr(<<ItemS1, ItemF1, ItemS2>>), <<>>),
       Obj(<< Pair(Key("scale"), Word("1:50")), Pair(Key("boq"), Arr(Boq2)) >>),
       Obj(<< Pair(Key("bbs"), Arr(<<>>)), Pair(Key("nested"), Obj(<<>>)) >>),
       \* a note that holds a closing brace, a space and a fence
       Document("1:20", <<>>, Arr(<<ItemF1>>), <<Str(<<RBRACE, WS, FENCE>>)>>),
       \* a note that holds braces
       Document("1:10", <<>>, Arr(<<ItemS1>>),
                <<Str(<<LBRACE, "see", RBRACE>>)>>) >>

\* answers on which the weight loop raises
BadDocuments ==
    << Document("1:100", Boq2, Arr(<<ItemNoDia>>), <<>>),
       Document("1:100", Boq2, Arr(<<ItemF1, ItemNoLength>>), <<>>),
       Document("1:100", Boq2, Arr(<<ItemF1, ItemS1, ItemStrDia>>), <<>>),
       Document("1:100", Boq2, Arr(<<ItemNullLength, ItemF1>>), <<>>),
       Document("1:100", Boq2, Arr(<<ItemF1, ItemListLength>>), <<>>),
       Document("1:100", Boq2, Arr(<<ItemF1, Num(12, 1)>>), <<>>),
       Document("1:100", Boq2, Null, <<>>),
       Document("1:100", Boq2, Word("none"), <<>>),
       Document("1:100", Boq2, Obj(<<Pair(Key("F1"), ItemF1)>>), <<>>) >>

Documents == GoodDocuments \o BadDocuments
DocumentSet == { Documents[j] : j \in 1..Len(Documents) }

\* prose around the JSON: none, words, words with braces
PlainProse == << <<>>, <<"here", WS, "it", WS, "is">> >>
BraceProse == << <<LBRACE, "see", WS, "note", RBRACE>> >>
Prose == PlainProse \o BraceProse
ProseSet == { Prose[j] : j \in 1..Len(Prose) }

Before(prose) == IF prose = <<>> THEN <<>> ELSE prose \o <<WS>>
After(prose) == IF prose = <<>> THEN <<>> ELSE <<WS>> \o prose

Fence(doc) == <<FENCE, TAG, WS>> \o Serialize(doc) \o <<WS, FENCE>>
FencedText(pre, doc, post) == Before(pre) \o Fence(doc) \o After(post)
BareText(pre, doc, post) == Before(pre) \o Serialize(doc) \o After(post)
TwoFenceText(pre, doc1, doc2, post) ==
    Before(pre) \o Fence(doc1) \o <<WS>> \o Fence(doc2) \o After(post)

\* texts that hold no JSON document
OtherTexts ==
    { <<"sorry", WS, "I", WS, "cannot", WS, "process", WS, "this">>,
      <<>>,
      <<RBRACE, WS, "then", WS, LBRACE>>,
      <<LBRACE, "see", WS, "note", RBRACE>>,
      <<FENCE, TAG, WS, LBRACE, QUOTE, "scale", QUOTE, COLON, WS>>,
      <<FENCE, TAG, WS, LBRACE, QUOTE, "scale", QUOTE, COLON, WS, QUOTE,
        "1:50", QUOTE, COMMA, RBRACE, WS, FENCE>>,
      <<FENCE, WS, LBRACE, RBRACE, WS, FENCE>>,
      <<LBRACK, "12", COMMA, WS, LBRACE, RBRACE, RBRACK>> }

\* the documents used after the first fence of a text with two fences
SecondDocuments == { Documents[1], Documents[3], Documents[7] }

Responses ==
    { FencedText(pre, doc, post) : pre \in ProseSet, doc \in DocumentSet,
                                   post \in ProseSet }
    \cup { BareText(pre, doc, post) : pre \in ProseSet, doc \in DocumentSet,
                                      post \in ProseSet }
    \cup { TwoFenceText(pre, doc1, doc2, <<>>) : pre \in ProseSet,
               doc1 \in DocumentSet, doc2 \in SecondDocuments }
    \cup OtherTexts

----------------------------------------------------------------------------
\* The weight formula

\* int and float are numbers, and so is bool (True is 1)
IsNumber(val) == val.t \in {"num", "bool"}
Fraction(val) == IF val.t = "bool" THEN <<val.v[1], 1>> ELSE val.v

\* n/d as a decimal fraction without trailing zeros
RECURSIVE Decimal(_, _)
Decimal(n, d) ==
    IF d > 1 /\ n % 10 = 0 THEN Decimal(n \div 10, d \div 10) ELSE Num(n, d)

\* round(n/d) to the nearest integer, a tie to the even one
RoundHalfEven(n, d) ==
    LET q == n \div d
        r == n % d
    IN  IF 2 * r < d THEN q
        ELSE IF 2 * r > d THEN q + 1
        ELSE IF q % 2 = 0 THEN q ELSE q + 1

\* Weight with the 2% wastage left out, as in the formula of the prompt
WeightWithoutWastage(dia, length) ==
    Decimal(RoundHalfEven(dia[1] * dia[1] * length[1] * 100,
                          dia[2] * dia[2] * length[2] * 162), 100)

\* round((dia ** 2 / 162) * length * 1.02, 2); dia and length are fractions
Weight(dia, length) ==
    Decimal(RoundHalfEven(dia[1] * dia[1] * length[1] * 102,
                          dia[2] * dia[2] * length[2] * 162), 100)

----------------------------------------------------------------------------
\* analyze_pdf

VARIABLES
    pc,             \* the position in analyze_pdf and in _parse_response
    calls,          \* the calls made to the service, with the file state seen
    uploaded_file,  \* uploaded_file.state.name
    response_text,  \* response.text
    json_str,
    data,
    index,          \* the position of bbs_item in data.get('bbs', [])
    error,          \* the exception raised inside the try block
    result,         \* what _parse_response returned
    raised          \* the exception that left analyze_pdf

vars == <<pc, calls, uploaded_file, response_text, json_str, data, index,
          error, result, raised>>

FileStates == {"STATE_UNSPECIFIED", "PROCESSING", "ACTIVE", "FAILED"}

Call(name, state) == [name |-> name, state |-> state]

Placeholder ==
    Obj(<< Pair(Key("scale"), Word("Unknown")),
           Pair(Key("boq"), Arr(<<>>)),
           Pair(Key("bbs"), Arr(<<>>)),
           Pair(Key("notes"),
                Arr(<<Word("Parsing failed - see raw response above")>>)),
           Pair(Key("assumptions"), Arr(<<>>)) >>)

Init ==
    /\ pc = "upload"
    /\ calls = <<>>
    /\ uploaded_file = "none"
    /\ response_text = <<>>
    /\ json_str = <<>>
    /\ data = Null
    /\ index = 0
    /\ error = "none"
    /\ result = Null
    /\ raised = "none"

\* genai.upload_file(pdf_path)
UploadFile ==
    /\ pc = "upload"
    /\ \E state \in FileStates :
          /\ uploaded_file' = state
          /\ calls' = Append(calls, Call("upload_file", state))
    /\ pc' = "wait"
    /\ UNCHANGED <<response_text, json_str, data, index, error, result, raised>>

\* one turn of the while loop: sleep, then genai.get_file
PollFile ==
    /\ pc = "wait"
    /\ uploaded_file = "PROCESSING"
    /\ Len(calls) <= MaxPolls
    /\ \E state \in FileStates :
          /\ uploaded_file' = state
          /\ calls' = Append(calls, Call("get_file", state))
    /\ UNCHANGED <<pc, response_text, json_str, data, index, error, result,
                   raised>>

\* the loop is left with the state FAILED
ProcessingFailed ==
    /\ pc = "wait"
    /\ uploaded_file # "PROCESSING"
    /\ uploaded_file = "FAILED"
    /\ raised' = "ValueError"
    /\ pc' = "raised"
    /\ UNCHANGED <<calls, uploaded_file, response_text, json_str, data, index,
                   error, result>>

\* GenerateContent without the check for FAILED
GenerateWithoutFailedCheck ==
    /\ pc = "wait"
    /\ uploaded_file # "PROCESSING"
    /\ calls' = Append(calls, Call("generate_content", uploaded_file))
    /\ \E text \in Responses : response_text' = text
    /\ pc' = "parse"
    /\ UNCHANGED <<uploaded_file, json_str, data, index, error, result, raised>>

\* the loop is left with another state: the prompt goes to the model
GenerateContent ==
    /\ pc = "wait"
    /\ uploaded_file # "PROCESSING"
    /\ uploaded_file # "FAILED"
    /\ calls' = Append(calls, Call("generate_content", uploaded_file))
    /\ \E text \in Responses : response_text' = text
    /\ pc' = "parse"
    /\ UNCHANGED <<uploaded_file, json_str, data, index, error, result, raised>>

----------------------------------------------------------------------------
\* _parse_response

\* the two searches for the JSON candidate
ExtractJson ==
    /\ pc = "parse"
    /\ LET fenced == SearchFenced(response_text)
           greedy == SearchGreedy(response_text)
       IN  IF fenced.found
           THEN /\ json_str' = SubSeq(response_text, fenced.first, fenced.last)
                /\ pc' = "loads"
                /\ error' = error
           ELSE IF greedy.found
           THEN /\ json_str' = SubSeq(response_text, greedy.first, greedy.last)
                /\ pc' = "loads"
                /\ error' = error
           ELSE /\ error' = "ValueError"
                /\ pc' = "except"
                /\ json_str' = json_str
    /\ UNCHANGED <<calls, uploaded_file, response_text, data, index, result,
                   raised>>

\* data = json.loads(json_str)
LoadJson ==
    /\ pc = "loads"
    /\ LET loaded == JsonLoads(json_str)
       IN  IF loaded.ok
           THEN /\ data' = loaded.val
                /\ index' = 1
                /\ pc' = "recalc"
                /\ error' = error
           ELSE /\ error' = "JSONDecodeError"
                /\ pc' = "except"
                /\ UNCHANGED <<data, index>>
    /\ UNCHANGED <<calls, uploaded_file, response_text, json_str, result,
                   raised>>

\* data.get('bbs', [])
GetBbs(doc) ==
    IF HasKey(doc.v, Key("bbs")) THEN GetKey(doc.v, Key("bbs")) ELSE Arr(<<>>)

\* what the for statement can iterate: a list, the keys of a dict, the
\* characters of a str; anything else is a TypeError
IsIterable(val) == val.t \in {"arr", "obj", "str"}
Iterate(val) ==
    IF val.t = "arr" THEN val.v
    ELSE IF val.t = "obj" THEN [j \in 1..Len(val.v) |-> Str(val.v[j].k)]
    ELSE [j \in 1..Len(val.v) |-> Word(val.v[j])]

\* the exception the body of the loop raises on bbs_item, "none" if none
ItemError(bbs_item) ==
    IF bbs_item.t # "obj" THEN "TypeError"
    ELSE IF ~HasKey(bbs_item.v, Key("dia_mm")) THEN "KeyError"
    ELSE IF ~HasKey(bbs_item.v, Key("total_length")) THEN "KeyError"
    ELSE IF ~IsNumber(GetKey(bbs_item.v, Key("dia_mm"))) THEN "TypeError"
    ELSE IF ~IsNumber(GetKey(bbs_item.v, Key("total_length"))) THEN "TypeError"
    ELSE "none"

\* Recalculate that trusts a weight the item came with
KeepSuppliedWeight(bbs_item) ==
    IF HasKey(bbs_item.v, Key("weight_kg"))
    THEN bbs_item
    ELSE Obj(Append(bbs_item.v,
             Pair(Key("weight_kg"),
                  Weight(Fraction(GetKey(bbs_item.v, Key("dia_mm"))),
                         Fraction(GetKey(bbs_item.v, Key("total_length")))))))

\* Recalculate that builds a new item from the fields it knows
RebuildItem(bbs_item) ==
    Obj(<< Pair(Key("mark"), GetKey(bbs_item.v, Key("mark"))),
           Pair(Key("dia_mm"), GetKey(bbs_item.v, Key("dia_mm"))),
           Pair(Key("total_length"), GetKey(bbs_item.v, Key("total_length"))),
           Pair(Key("weight_kg"),
                Weight(Fraction(GetKey(bbs_item.v, Key("dia_mm"))),
                       Fraction(GetKey(bbs_item.v, Key("total_length"))))) >>)

\* bbs_item['weight_kg'] = round(weight, 2)
Recalculate(bbs_item) ==
    Obj(SetKey(bbs_item.v, Key("weight_kg"),
               Weight(Fraction(GetKey(bbs_item.v, Key("dia_mm"))),
                      Fraction(GetKey(bbs_item.v, Key("total_length"))))))

\* data with bbs_item number j replaced; bbs is a list here
WithBbsItem(doc, j, bbs_item) ==
    Obj(SetKey(doc.v, Key("bbs"),
               Arr([GetBbs(doc).v EXCEPT ![j] = bbs_item])))

\* the for statement finds data.get('bbs', []) not iterable
BbsNotIterable ==
    /\ pc = "recalc"
    /\ ~IsIterable(GetBbs(data))
    /\ error' = "TypeError"
    /\ pc' = "except"
    /\ UNCHANGED <<calls, uploaded_file, response_text, json_str, data, index,
                   result, raised>>

\* one turn of the for loop
RecalcItem ==
    /\ pc = "recalc"
    /\ IsIterable(GetBbs(data))
    /\ index <= Len(Iterate(GetBbs(data)))
    /\ LET bbs_item == Iterate(GetBbs(data))[index]
       IN  IF ItemError(bbs_item) = "none"
           THEN /\ data' = WithBbsItem(data, index, Recalculate(bbs_item))
                /\ index' = index + 1
                /\ UNCHANGED <<pc, error>>
           ELSE /\ error' = ItemError(bbs_item)
                /\ pc' = "except"
                /\ UNCHANGED <<data, index>>
    /\ UNCHANGED <<calls, uploaded_file, response_text, json_str, result,
                   raised>>

\* the loop is over: return data
ReturnData ==
    /\ pc = "recalc"
    /\ IsIterable(GetBbs(data))
    /\ index > Len(Iterate(GetBbs(data)))
    /\ result' = data
    /\ pc' = "parsed"
    /\ UNCHANGED <<calls, uploaded_file, response_text, json_str, data, index,
                   error, raised>>

\* HandleException that raises the exception again after printing
ReraiseException ==
    /\ pc = "except"
    /\ raised' = error
    /\ pc' = "raised"
    /\ UNCHANGED <<calls, uploaded_file, response_text, json_str, data, index,
                   error, result>>

\* HandleException as except ValueError: KeyError and TypeError get away
HandleValueErrorOnly ==
    /\ pc = "except"
    /\ IF error \in {"ValueError", "JSONDecodeError"}
       THEN result' = Placeholder /\ pc' = "parsed" /\ raised' = raised
       ELSE raised' = error /\ pc' = "raised" /\ result' = result
    /\ UNCHANGED <<calls, uploaded_file, response_text, json_str, data, index,
                   error>>

\* HandleException that returns what was parsed when the JSON was read
ReturnPartialData ==
    /\ pc = "except"
    /\ result' = IF data = Null THEN Placeholder ELSE data
    /\ pc' = "parsed"
    /\ UNCHANGED <<calls, uploaded_file, response_text, json_str, data, index,
                   error, raised>>

\* except Exception: print the raw response, return the placeholder
HandleException ==
    /\ pc = "except"
    /\ result' = Placeholder
    /\ pc' = "parsed"
    /\ UNCHANGED <<calls, uploaded_file, response_text, json_str, data, index,
                   error, raised>>

\* analyze_pdf returns result
ReturnResult ==
    /\ pc = "parsed"
    /\ pc' = "done"
    /\ UNCHANGED <<calls, uploaded_file, response_text, json_str, data, index,
                   error, result, raised>>

Next ==
    \/ UploadFile
    \/ PollFile
    \/ ProcessingFailed
    \/ GenerateContent
    \/ ExtractJson
    \/ LoadJson
    \/ BbsNotIterable
    \/ RecalcItem
    \/ ReturnData
    \/ HandleException
    \/ ReturnResult

Spec == Init /\ [][Next]_vars

----------------------------------------------------------------------------
\* Vocabulary of the properties

\* _parse_response has returned
Returned == pc \in {"parsed", "done"}
\* the JSON candidate has been chosen
Extracted == pc \in {"loads", "recalc", "except", "parsed", "done"}

Abs(n) == IF n < 0 THEN -n ELSE n

\* the pairs of a dict without key k, in order
RECURSIVE WithoutKey(_, _)
WithoutKey(pairs, k) ==
    IF pairs = <<>> THEN <<>>
    ELSE (IF Head(pairs).k = k THEN <<>> ELSE <<Head(pairs)>>)
         \o WithoutKey(Tail(pairs), k)

\* the empty result with one diagnostic line
IsPlaceholder(res) ==
    /\ res.t = "obj"
    /\ { res.v[j].k : j \in 1..Len(res.v) }
         = { Key("scale"), Key("boq"), Key("bbs"), Key("notes"),
             Key("assumptions") }
    /\ GetKey(res.v, Key("scale")) = Word("Unknown")
    /\ GetKey(res.v, Key("boq")) = Arr(<<>>)
    /\ GetKey(res.v, Key("bbs")) = Arr(<<>>)
    /\ GetKey(res.v, Key("assumptions")) = Arr(<<>>)
    /\ GetKey(res.v, Key("notes")).t = "arr"
    /\ Len(GetKey(res.v, Key("notes")).v) = 1

\* w is a value with two decimals nearest to (dia^2 / 162) * length * 1.02
IsFormulaWeight(w, dia, length) ==
    /\ w.t = "num"
    /\ 100 % w.v[2] = 0
    /\ 2 * Abs(w.v[1] * 100 * dia[2] * dia[2] * length[2] * 162
               - dia[1] * dia[1] * length[1] * 102 * w.v[2])
         <= dia[2] * dia[2] * length[2] * 162 * w.v[2]

\* res is doc with nothing changed but the weight_kg of the items of bbs
SameButWeights(res, doc) ==
    /\ res.t = "obj" /\ doc.t = "obj"
    /\ Len(res.v) = Len(doc.v)
    /\ \A j \in 1..Len(doc.v) :
          /\ res.v[j].k = doc.v[j].k
          /\ IF doc.v[j].k = Key("bbs") /\ doc.v[j].v.t = "arr"
             THEN /\ res.v[j].v.t = "arr"
                  /\ Len(res.v[j].v.v) = Len(doc.v[j].v.v)
                  /\ \A m \in 1..Len(doc.v[j].v.v) :
                        LET before == doc.v[j].v.v[m]
                            after == res.v[j].v.v[m]
                        IN  IF before.t = "obj"
                            THEN /\ after.t = "obj"
                                 /\ WithoutKey(after.v, Key("weight_kg"))
                                      = WithoutKey(before.v, Key("weight_kg"))
                            ELSE after = before
             ELSE res.v[j].v = doc.v[j].v

\* every item of the bbs list of res carries the weight of the formula
WeightsRecomputed(res) ==
    GetBbs(res).t = "arr" =>
        \A j \in 1..Len(GetBbs(res).v) :
            LET bbs_item == GetBbs(res).v[j]
            IN  /\ bbs_item.t = "obj"
                /\ HasKey(bbs_item.v, Key("dia_mm"))
                /\ HasKey(bbs_item.v, Key("total_length"))
                /\ HasKey(bbs_item.v, Key("weight_kg"))
                /\ IsFormulaWeight(GetKey(bbs_item.v, Key("weight_kg")),
                       Fraction(GetKey(bbs_item.v, Key("dia_mm"))),
                       Fraction(GetKey(bbs_item.v, Key("total_length"))))

\* doc holds a BBS item whose dia_mm or total_length is absent or no number
HasBadItem(doc) ==
    /\ doc.t = "obj"
    /\ GetBbs(doc).t = "arr"
    /\ \E j \in 1..Len(GetBbs(doc).v) :
          LET bbs_item == GetBbs(doc).v[j]
          IN  /\ bbs_item.t = "obj"
              /\ \/ ~HasKey(bbs_item.v, Key("dia_mm"))
                 \/ ~HasKey(bbs_item.v, Key("total_length"))
                 \/ GetKey(bbs_item.v, Key("dia_mm")).t \notin {"num", "bool"}
                 \/ GetKey(bbs_item.v, Key("total_length")).t
                      \notin {"num", "bool"}

SorryText == <<"sorry", WS, "I", WS, "cannot", WS, "process", WS, "this">>

----------------------------------------------------------------------------
\* Properties

\* what holds of every state: nothing raised from the try block leaves, and
\* a parse failure gives the placeholder
ParseIsSafe ==
    /\ pc = "raised" =>
          /\ error = "none"
          /\ \A k \in 1..Len(calls) : calls[k].name # "generate_content"
    /\ Returned =>
          /\ raised = "none"
          /\ result.t = "obj"
          /\ error \in {"ValueError", "JSONDecodeError"}
                => IsPlaceholder(result)
          /\ ~SearchFenced(response_text).found
               /\ ~SearchGreedy(response_text).found
                => IsPlaceholder(result)
          /\ ~JsonLoads(json_str).ok => IsPlaceholder(result)
          /\ response_text = SorryText => IsPlaceholder(result)

\* C1: for every response text _parse_response returns a result and lets
\* no exception reach its caller; when no JSON candidate is found, or the
\* candidate is not valid JSON, the result is the placeholder: scale
\* "Unknown", boq, bbs and assumptions empty, one diagnostic line in notes.
C1_ReturnsPlaceholderOnParseFailure ==
    /\ []ParseIsSafe
    /\ [][(pc \in {"parse", "loads", "recalc", "except"}) =>
             (pc' \in {"loads", "recalc", "except", "parsed"}
                 /\ raised' = "none" /\ UNCHANGED calls)]_vars

C1_Witness ==
    /\ Returned
    /\ response_text = SorryText
    /\ error = "ValueError"
    /\ IsPlaceholder(result)

\* C2: in a parsed (non-placeholder) result every item of bbs has the
\* weight_kg of the formula round((dia_mm^2 / 162) * total_length * 1.02, 2)
\* on its own dia_mm and total_length, whatever weight_kg the text gave.
C2_WeightsFollowFormula ==
    Returned /\ ~IsPlaceholder(result) => WeightsRecomputed(result)

\* a result whose three items came with a wrong weight, without a weight,
\* and with the weight ahead of the other fields
C2_Witness ==
    /\ Returned
    /\ ~IsPlaceholder(result)
    /\ json_str = Serialize(GoodDocuments[2])
    /\ result # JsonLoads(json_str).val
    /\ WeightsRecomputed(result)

\* the items of the result with dia_mm = 12 and total_length = 17.6
ExampleItems ==
    IF Returned /\ ~IsPlaceholder(result) /\ GetBbs(result).t = "arr"
    THEN { j \in 1..Len(GetBbs(result).v) :
             LET bbs_item == GetBbs(result).v[j]
             IN  /\ bbs_item.t = "obj"
                 /\ HasKey(bbs_item.v, Key("dia_mm"))
                 /\ HasKey(bbs_item.v, Key("total_length"))
                 /\ GetKey(bbs_item.v, Key("dia_mm")) = Num(12, 1)
                 /\ GetKey(bbs_item.v, Key("total_length")) = Num(176, 10) }
    ELSE {}
ExampleWeight(j) == GetKey(GetBbs(result).v[j].v, Key("weight_kg"))

\* C3 as stated: for dia_mm = 12 and total_length = 17.6 the weight_kg set
\* is round((144/162) * 17.6 * 1.02, 2), and that value is 13.29.
C3_WeightIs1329 ==
    \A j \in ExampleItems :
        /\ IsFormulaWeight(ExampleWeight(j), <<12, 1>>, <<176, 10>>)
        /\ ExampleWeight(j) = Num(1329, 100)

\* C3 amended: for dia_mm = 12 and total_length = 17.6 the weight_kg set
\* is round((144/162) * 17.6 * 1.02, 2), and that value is 15.96.
C3_WeightIs1596 ==
    \A j \in ExampleItems :
        /\ IsFormulaWeight(ExampleWeight(j), <<12, 1>>, <<176, 10>>)
        /\ ExampleWeight(j) = Num(1596, 100)

C3_Witness ==
    \E j \in ExampleItems : ExampleWeight(j) = Num(1596, 100)

GoodDocumentSet == { GoodDocuments[j] : j \in 1..Len(GoodDocuments) }
BraceProseSet == { BraceProse[j] : j \in 1..Len(BraceProse) }

\* texts with one fenced document and brace prose before or after it
FencedCases ==
    { c \in { [text |-> FencedText(pre, doc, post), doc |-> doc,
               pre |-> pre, post |-> post] :
                 pre \in ProseSet, doc \in GoodDocumentSet, post \in ProseSet } :
        c.pre \in BraceProseSet \/ c.post \in BraceProseSet }

\* C4: when the text holds a fenced block with a JSON object (one whose
\* weights can be recomputed) and unrelated brace prose outside the fence,
\* the candidate is the fenced object, not the span from the first opening
\* to the last closing brace, and the result is the fenced object's data.
C4_FencedObjectTaken ==
    \A c \in FencedCases :
        response_text = c.text =>
            /\ Extracted =>
                  /\ json_str = Serialize(c.doc)
                  /\ json_str # SubSeq(response_text,
                                       SearchGreedy(response_text).first,
                                       SearchGreedy(response_text).last)
            /\ Returned =>
                  /\ ~IsPlaceholder(result)
                  /\ SameButWeights(result, c.doc)
                  /\ WeightsRecomputed(result)

\* texts without a fence tag that hold one bare document
BareCases ==
    { [text |-> BareText(pre, doc, post), doc |-> doc] :
         pre \in ProseSet, doc \in GoodDocumentSet, post \in ProseSet }

\* C5: when the text has no json fence and holds a bare JSON object (one
\* whose weights can be recomputed) with any prose before and after it, the
\* object is extracted: the result is the object's data with the weights
\* recomputed, not the placeholder.
C5_BareObjectExtracted ==
    \A c \in BareCases :
        response_text = c.text =>
            /\ Extracted => json_str = Serialize(c.doc)
            /\ Returned =>
                  /\ ~IsPlaceholder(result)
                  /\ SameButWeights(result, c.doc)
                  /\ WeightsRecomputed(result)

\* res is doc with its weights recomputed or left, and a longer notes list
ItemSkipped(res, doc) ==
    /\ SameButWeights(Obj(WithoutKey(res.v, Key("notes"))),
                      Obj(WithoutKey(doc.v, Key("notes"))))
    /\ HasKey(res.v, Key("notes"))
    /\ GetKey(res.v, Key("notes")).t = "arr"
    /\ Len(GetKey(res.v, Key("notes")).v) >
          (IF HasKey(doc.v, Key("notes"))
           THEN Len(GetKey(doc.v, Key("notes")).v) ELSE 0)

\* C6: when the parsed JSON holds a BBS item whose dia_mm or total_length is
\* absent or not numeric, nothing is raised to the caller, and either the
\* item is skipped with a diagnostic added to notes or the call fails in a
\* caught way: a valid result with a diagnostic in notes.
C6_BadItemIsCaught ==
    HasBadItem(data) =>
        /\ raised = "none"
        /\ pc # "raised"
        /\ Returned => \/ IsPlaceholder(result)
                       \/ ItemSkipped(result, JsonLoads(json_str).val)

\* the call is over for a document with an item that lacks one of the keys
C6_Witness ==
    /\ pc = "done"
    /\ HasBadItem(data)
    /\ error = "KeyError"
    /\ raised = "none"
    /\ IsPlaceholder(result)

\* C7: on a successful parse nothing changes but the weight_kg of the BBS
\* items: boq and bbs hold the same items in the same order as the input
\* JSON, every other field of every item has its input value, and scale,
\* notes and assumptions are as in the input.
C7_OnlyWeightsChange ==
    Returned /\ ~IsPlaceholder(result) =>
        /\ SameButWeights(result, JsonLoads(json_str).val)
        /\ \A doc \in DocumentSet :
              json_str = Serialize(doc) => SameButWeights(result, doc)

C7_Witness ==
    /\ Returned
    /\ ~IsPlaceholder(result)
    /\ json_str = Serialize(GoodDocuments[2])
    /\ SameButWeights(result, GoodDocuments[2])
    /\ result # GoodDocuments[2]

\* texts with two fenced documents
TwoFenceCases ==
    { [text |-> TwoFenceText(pre, doc1, doc2, <<>>), first |-> doc1] :
         pre \in ProseSet, doc1 \in DocumentSet, doc2 \in SecondDocuments }

\* C8: when the text holds several fenced blocks, each with a JSON object,
\* only the first is used: the candidate is exactly the object of the first
\* fence, and nothing of a later block is in the candidate or the result.
C8_OnlyFirstBlock ==
    \A c \in TwoFenceCases :
        response_text = c.text =>
            /\ Extracted => json_str = Serialize(c.first)
            /\ Returned => \/ IsPlaceholder(result)
                           \/ SameButWeights(result, c.first)

\* C9: parsing and normalization are all or nothing: when the weight loop
\* fails on an item, at any position, the result is the placeholder, and a
\* record with only some weights recomputed is never returned.
C9_AllOrNothing ==
    Returned =>
        /\ error \in {"KeyError", "TypeError"} => IsPlaceholder(result)
        /\ JsonLoads(json_str).ok /\ HasBadItem(JsonLoads(json_str).val)
              => IsPlaceholder(result)
        /\ ~IsPlaceholder(result) => WeightsRecomputed(result)

\* the loop failed after it had recomputed the weight of an earlier item
C9_Witness ==
    /\ Returned
    /\ error \in {"KeyError", "TypeError"}
    /\ index > 1
    /\ data # JsonLoads(json_str).val
    /\ IsPlaceholder(result)

\* the log of calls: the prompt follows the first state that is not
\* PROCESSING, that state is not FAILED, and FAILED ends the calls
PromptAfterReady ==
    \A k \in 1..Len(calls) :
        /\ calls[k].name = "generate_content" =>
              /\ k > 1
              /\ calls[k - 1].name \in {"upload_file", "get_file"}
              /\ calls[k - 1].state \notin {"PROCESSING", "FAILED"}
              /\ \A j \in 1..(k - 2) : calls[j].state = "PROCESSING"
        /\ calls[k].name = "get_file" =>
              k > 1 /\ calls[k - 1].state = "PROCESSING"
        /\ calls[k].state = "FAILED" =>
              /\ k = Len(calls)
              /\ pc \in {"wait", "raised"}
              /\ response_text = <<>> /\ json_str = <<>>
              /\ data = Null /\ result = Null /\ error = "none"

\* C10: analyze_pdf sends the prompt only after it has seen the file in a
\* state that is neither PROCESSING nor FAILED; while the state is
\* PROCESSING it only polls again, and when the first other state it sees
\* is FAILED it raises ValueError and calls neither the model nor
\* _parse_response.
C10_PromptOnlyAfterReady ==
    /\ [](PromptAfterReady /\ (pc = "raised" => raised = "ValueError"))
    /\ [][pc = "wait" /\ uploaded_file = "PROCESSING" =>
             /\ pc' = "wait"
             /\ Len(calls') = Len(calls) + 1
             /\ calls'[Len(calls')].name = "get_file"
             /\ UNCHANGED <<response_text, json_str, data, index, error,
                            result, raised>>]_vars
    /\ [][pc = "wait" /\ uploaded_file = "FAILED" =>
             /\ pc' = "raised"
             /\ raised' = "ValueError"
             /\ UNCHANGED <<calls, response_text, json_str, data, index,
                            error, result>>]_vars

\* the prompt was sent after the file had been polled out of PROCESSING
C10_Witness ==
    \E k \in 3..Len(calls) :
        /\ calls[k].name = "generate_content"
        /\ calls[1].state = "PROCESSING"
        /\ Returned

====
